---- MODULE Spec2Model ----
(***************************************************************************)
(* Copy-on-write trie of src/primer/trie.cpp: Trie::Get, Trie::GetTrieNode, *)
(* Trie::Put and Trie::Remove over a heap of reference-counted nodes.      *)
(* A node is identified by its index in the heap, so that sharing of nodes *)
(* between snapshots and writes through const_pointer_cast are visible.    *)
(***************************************************************************)
EXTENDS Integers, Sequences, FiniteSets, TLC

\* The symbols of a key (char), cut down to two.
Sym == {"a", "b"}

\* Longest key the model passes to an operation.
MaxKeyLen == 2

\* Number of calls (Put, Remove, Get) in one run.
MaxOps == 2

Keys == UNION {[1..n -> Sym] : n \in 0..MaxKeyLen}

\* Two of the instantiated value types (uint32_t, std::string).
Types == {"u32", "str"}

\* Two values of each type; Null is not one of them.
Values == {1, 2}

\* nullptr, for node pointers and for the value pointer Get returns.
Null == 0

VARIABLES
  heap,   \* the nodes allocated so far; a node's identity is its index
  tries,  \* the Trie handles produced so far, with the call that made each
  got,    \* the last call, when it was a Get, and what it returned
  nops,   \* number of calls made
  rd,     \* a Get that runs one node visit per step
  wr      \* a Put or Remove that runs one loop iteration per step

vars == <<heap, tries, got, nops, rd, wr>>

----------------------------------------------------------------------------
\* Nodes

\* An empty children_ map.
NoChildren == [c \in Sym |-> Null]

\* TrieNode(children): a node without a value.
TrieNode(children) == [children |-> children, ty |-> "none", val |-> Null]

\* TrieNodeWithValue<T>(value): a value node with an empty children_ map.
TrieNodeWithValue(T, v) == [children |-> NoChildren, ty |-> T, val |-> v]

\* Clone(): a new node with a copy of the children_ map and, for a value
\* node, the same value under the same type.
Clone(n) == [children |-> [c \in Sym |-> n.children[c]], ty |-> n.ty, val |-> n.val]

\* children_.empty()
Empty(children) == \A c \in Sym : children[c] = Null

----------------------------------------------------------------------------
\* Trie::GetTrieNode

RECURSIVE Walk(_, _, _, _)
Walk(h, cur, key, i) ==
  IF i > Len(key) THEN cur
  ELSE IF cur = Null THEN cur
  ELSE IF h[cur].children[key[i]] = Null THEN Null
  ELSE Walk(h, h[cur].children[key[i]], key, i + 1)

GetTrieNode(h, root_, key) == Walk(h, root_, key, 1)

\* Get with a static cast: the value whatever its type.
GetNoCast(h, root_, key, T) ==
  LET cur == GetTrieNode(h, root_, key)
  IN IF cur # Null THEN h[cur].val ELSE Null

\* Trie::Get<T>: dynamic_cast to TrieNodeWithValue<T>, then the value.
Get(h, root_, key, T) ==
  LET cur == GetTrieNode(h, root_, key)
  IN IF cur # Null /\ h[cur].ty = T THEN h[cur].val ELSE Null

----------------------------------------------------------------------------
\* Trie::Put

\* The loop with the last symbol taken one step early (i + 1 == size with i
\* counted from 1).
RECURSIVE PutLoopOffByOne(_, _, _, _, _, _, _)
PutLoopOffByOne(h, cur, key, i, T, v, w) ==
  IF i > Len(key) THEN [heap |-> h, writes |-> w]
  ELSE
    LET prev == cur
        it == h[prev].children[key[i]]
        node == IF i + 1 = Len(key) THEN TrieNodeWithValue(T, v)
                ELSE IF it # Null THEN Clone(h[it])
                ELSE TrieNode(NoChildren)
        h1 == Append(h, node)
        new == Len(h1)
        h2 == [h1 EXCEPT ![prev].children[key[i]] = new]
    IN PutLoopOffByOne(h2, new, key, i + 1, T, v, w \cup {prev})

\* The loop with insert() alone: an entry that exists is left as it is.
RECURSIVE PutLoopInsertOnly(_, _, _, _, _, _, _)
PutLoopInsertOnly(h, cur, key, i, T, v, w) ==
  IF i > Len(key) THEN [heap |-> h, writes |-> w]
  ELSE
    LET prev == cur
        it == h[prev].children[key[i]]
        node == IF i = Len(key) THEN TrieNodeWithValue(T, v)
                ELSE IF it # Null THEN Clone(h[it])
                ELSE TrieNode(NoChildren)
        h1 == Append(h, node)
        new == Len(h1)
        h2 == IF it # Null THEN h1 ELSE [h1 EXCEPT ![prev].children[key[i]] = new]
    IN PutLoopInsertOnly(h2, new, key, i + 1, T, v, w \cup {prev})

\* The loop with the new value node taking over the children_ of the node it
\* replaces.
RECURSIVE PutLoopKeepChildren(_, _, _, _, _, _, _)
PutLoopKeepChildren(h, cur, key, i, T, v, w) ==
  IF i > Len(key) THEN [heap |-> h, writes |-> w]
  ELSE
    LET prev == cur
        it == h[prev].children[key[i]]
        node == IF i = Len(key)
                THEN [children |-> IF it # Null THEN h[it].children ELSE NoChildren,
                      ty |-> T, val |-> v]
                ELSE IF it # Null THEN Clone(h[it])
                ELSE TrieNode(NoChildren)
        h1 == Append(h, node)
        new == Len(h1)
        h2 == [h1 EXCEPT ![prev].children[key[i]] = new]
    IN PutLoopKeepChildren(h2, new, key, i + 1, T, v, w \cup {prev})

\* The loop with the nodes on the way copied as plain nodes: their values
\* are lost.
RECURSIVE PutLoopPlainClone(_, _, _, _, _, _, _)
PutLoopPlainClone(h, cur, key, i, T, v, w) ==
  IF i > Len(key) THEN [heap |-> h, writes |-> w]
  ELSE
    LET prev == cur
        it == h[prev].children[key[i]]
        node == IF i = Len(key) THEN TrieNodeWithValue(T, v)
                ELSE IF it # Null THEN TrieNode(h[it].children)
                ELSE TrieNode(NoChildren)
        h1 == Append(h, node)
        new == Len(h1)
        h2 == [h1 EXCEPT ![prev].children[key[i]] = new]
    IN PutLoopPlainClone(h2, new, key, i + 1, T, v, w \cup {prev})

RECURSIVE PutLoop(_, _, _, _, _, _, _)
PutLoop(h, cur, key, i, T, v, w) ==
  IF i > Len(key) THEN [heap |-> h, writes |-> w]
  ELSE
    LET prev == cur
        it == h[prev].children[key[i]]
        node == IF i = Len(key) THEN TrieNodeWithValue(T, v)
                ELSE IF it # Null THEN Clone(h[it])
                ELSE TrieNode(NoChildren)
        h1 == Append(h, node)
        new == Len(h1)
        h2 == [h1 EXCEPT ![prev].children[key[i]] = new]
    IN PutLoop(h2, new, key, i + 1, T, v, w \cup {prev})

\* Put that writes into the receiver's root instead of a clone of it.
PutInPlace(h, root_, key, T, v) ==
  IF Len(key) = 0 THEN [heap |-> h, root |-> root_, writes |-> {}, ub |-> FALSE]
  ELSE
    LET h0 == IF root_ # Null THEN h ELSE Append(h, TrieNode(NoChildren))
        root == IF root_ # Null THEN root_ ELSE Len(h0)
        r == PutLoop(h0, root, key, 1, T, v, {})
    IN [heap |-> r.heap, root |-> root, writes |-> r.writes, ub |-> FALSE]

\* Put without the early return for the empty key.
PutNoEmptyCheck(h, root_, key, T, v) ==
  LET h0 == Append(h, IF root_ # Null THEN Clone(h[root_]) ELSE TrieNode(NoChildren))
      root == Len(h0)
      r == PutLoop(h0, root, key, 1, T, v, {})
  IN [heap |-> r.heap, root |-> root, writes |-> r.writes, ub |-> FALSE]

\* Node n with each of its children in S replaced by a clone of it.
RECURSIVE CloneKids(_, _, _)
CloneKids(h, n, S) ==
  IF S = {} THEN h
  ELSE
    LET c == CHOOSE x \in S : TRUE
        kid == h[n].children[c]
        h1 == Append(h, Clone(h[kid]))
    IN IF kid = Null THEN CloneKids(h, n, S \ {c})
       ELSE CloneKids([h1 EXCEPT ![n].children[c] = Len(h1)], n, S \ {c})

\* Put that clones the root two levels deep.
PutCloneChildren(h, root_, key, T, v) ==
  IF Len(key) = 0 THEN [heap |-> h, root |-> root_, writes |-> {}, ub |-> FALSE]
  ELSE
    LET h0 == Append(h, IF root_ # Null THEN Clone(h[root_]) ELSE TrieNode(NoChildren))
        root == Len(h0)
        r == PutLoop(CloneKids(h0, root, Sym), root, key, 1, T, v, {})
    IN [heap |-> r.heap, root |-> root, writes |-> r.writes, ub |-> FALSE]

Put(h, root_, key, T, v) ==
  IF Len(key) = 0 THEN [heap |-> h, root |-> root_, writes |-> {}, ub |-> FALSE]
  ELSE
    LET h0 == Append(h, IF root_ # Null THEN Clone(h[root_]) ELSE TrieNode(NoChildren))
        root == Len(h0)
        r == PutLoop(h0, root, key, 1, T, v, {})
    IN [heap |-> r.heap, root |-> root, writes |-> r.writes, ub |-> FALSE]

----------------------------------------------------------------------------
\* Trie::Remove

\* The loop with the replacement node built from the parent's children_.
RECURSIVE RemoveLoopParentMap(_, _, _, _, _)
RemoveLoopParentMap(h, cur, key, i, w) ==
  IF i > Len(key) THEN [heap |-> h, writes |-> w, ub |-> FALSE]
  ELSE
    LET prev == cur
        it == h[prev].children[key[i]]
    IN IF it = Null THEN [heap |-> h, writes |-> w, ub |-> TRUE]
       ELSE IF i = Len(key) THEN
         LET h1 == Append(h, TrieNode(h[prev].children))
             new == Len(h1)
         IN IF ~Empty(h1[new].children)
            THEN RemoveLoopParentMap([h1 EXCEPT ![prev].children[key[i]] = new],
                                     new, key, i + 1, w \cup {prev})
            ELSE RemoveLoopParentMap(h1, new, key, i + 1, w)
       ELSE
         LET h1 == Append(h, Clone(h[it]))
             new == Len(h1)
         IN RemoveLoopParentMap([h1 EXCEPT ![prev].children[key[i]] = new],
                                new, key, i + 1, w \cup {prev})

\* The loop with the replacement node a clone: the value stays.
RECURSIVE RemoveLoopKeepValue(_, _, _, _, _)
RemoveLoopKeepValue(h, cur, key, i, w) ==
  IF i > Len(key) THEN [heap |-> h, writes |-> w, ub |-> FALSE]
  ELSE
    LET prev == cur
        it == h[prev].children[key[i]]
    IN IF it = Null THEN [heap |-> h, writes |-> w, ub |-> TRUE]
       ELSE IF i = Len(key) THEN
         LET h1 == Append(h, Clone(h[it]))
             new == Len(h1)
         IN IF ~Empty(h1[new].children)
            THEN RemoveLoopKeepValue([h1 EXCEPT ![prev].children[key[i]] = new],
                    new, key, i + 1, w \cup {prev})
            ELSE RemoveLoopKeepValue(h1, new, key, i + 1, w)
       ELSE
         LET h1 == Append(h, Clone(h[it]))
             new == Len(h1)
         IN RemoveLoopKeepValue([h1 EXCEPT ![prev].children[key[i]] = new],
               new, key, i + 1, w \cup {prev})

\* The loop with an empty replacement node, attached in every case.
RECURSIVE RemoveLoopDropChildren(_, _, _, _, _)
RemoveLoopDropChildren(h, cur, key, i, w) ==
  IF i > Len(key) THEN [heap |-> h, writes |-> w, ub |-> FALSE]
  ELSE
    LET prev == cur
        it == h[prev].children[key[i]]
    IN IF it = Null THEN [heap |-> h, writes |-> w, ub |-> TRUE]
       ELSE IF i = Len(key) THEN
         LET h1 == Append(h, TrieNode(NoChildren))
             new == Len(h1)
         IN IF TRUE
            THEN RemoveLoopDropChildren([h1 EXCEPT ![prev].children[key[i]] = new],
                    new, key, i + 1, w \cup {prev})
            ELSE RemoveLoopDropChildren(h1, new, key, i + 1, w)
       ELSE
         LET h1 == Append(h, Clone(h[it]))
             new == Len(h1)
         IN RemoveLoopDropChildren([h1 EXCEPT ![prev].children[key[i]] = new],
               new, key, i + 1, w \cup {prev})

\* The loop with the replacement node attached also when it has no children.
RECURSIVE RemoveLoopAttachAlways(_, _, _, _, _)
RemoveLoopAttachAlways(h, cur, key, i, w) ==
  IF i > Len(key) THEN [heap |-> h, writes |-> w, ub |-> FALSE]
  ELSE
    LET prev == cur
        it == h[prev].children[key[i]]
    IN IF it = Null THEN [heap |-> h, writes |-> w, ub |-> TRUE]
       ELSE IF i = Len(key) THEN
         LET h1 == Append(h, TrieNode(h[it].children))
             new == Len(h1)
         IN IF TRUE
            THEN RemoveLoopAttachAlways([h1 EXCEPT ![prev].children[key[i]] = new],
                    new, key, i + 1, w \cup {prev})
            ELSE RemoveLoopAttachAlways(h1, new, key, i + 1, w)
       ELSE
         LET h1 == Append(h, Clone(h[it]))
             new == Len(h1)
         IN RemoveLoopAttachAlways([h1 EXCEPT ![prev].children[key[i]] = new],
               new, key, i + 1, w \cup {prev})

\* The loop that erases, on the way down, a valueless node with one child
\* instead of attaching its clone.
RECURSIVE RemoveLoopCascade(_, _, _, _, _)
RemoveLoopCascade(h, cur, key, i, w) ==
  IF i > Len(key) THEN [heap |-> h, writes |-> w, ub |-> FALSE]
  ELSE
    LET prev == cur
        it == h[prev].children[key[i]]
    IN IF it = Null THEN [heap |-> h, writes |-> w, ub |-> TRUE]
       ELSE IF i = Len(key) THEN
         LET h1 == Append(h, TrieNode(h[it].children))
             new == Len(h1)
         IN IF ~Empty(h1[new].children)
            THEN RemoveLoopCascade([h1 EXCEPT ![prev].children[key[i]] = new],
                    new, key, i + 1, w \cup {prev})
            ELSE RemoveLoopCascade(h1, new, key, i + 1, w)
       ELSE
         LET h1 == Append(h, Clone(h[it]))
             new == Len(h1)
         IN RemoveLoopCascade(IF h[it].ty = "none" /\ Cardinality({c \in Sym : h[it].children[c] # Null}) = 1
               THEN [h1 EXCEPT ![prev].children[key[i]] = Null]
               ELSE [h1 EXCEPT ![prev].children[key[i]] = new],
               new, key, i + 1, w \cup {prev})

RECURSIVE RemoveLoop(_, _, _, _, _)
RemoveLoop(h, cur, key, i, w) ==
  IF i > Len(key) THEN [heap |-> h, writes |-> w, ub |-> FALSE]
  ELSE
    LET prev == cur
        it == h[prev].children[key[i]]
    IN IF it = Null THEN [heap |-> h, writes |-> w, ub |-> TRUE]
       ELSE IF i = Len(key) THEN
         LET h1 == Append(h, TrieNode(h[it].children))
             new == Len(h1)
         IN IF ~Empty(h1[new].children)
            THEN RemoveLoop([h1 EXCEPT ![prev].children[key[i]] = new],
                            new, key, i + 1, w \cup {prev})
            ELSE RemoveLoop(h1, new, key, i + 1, w)
       ELSE
         LET h1 == Append(h, Clone(h[it]))
             new == Len(h1)
         IN RemoveLoop([h1 EXCEPT ![prev].children[key[i]] = new],
                       new, key, i + 1, w \cup {prev})

\* Remove without the key.empty() test of its guard.
RemoveNoEmptyCheck(h, root_, key) ==
  IF root_ = Null \/ GetTrieNode(h, root_, key) = Null
  THEN [heap |-> h, root |-> root_, writes |-> {}, ub |-> FALSE]
  ELSE
    LET h0 == Append(h, Clone(h[root_]))
        root == Len(h0)
        r == RemoveLoop(h0, root, key, 1, {})
    IN [heap |-> r.heap, root |-> root, writes |-> r.writes, ub |-> r.ub]

\* Remove that writes into the receiver's root instead of a clone of it.
RemoveInPlace(h, root_, key) ==
  IF Len(key) = 0 \/ root_ = Null \/ GetTrieNode(h, root_, key) = Null
  THEN [heap |-> h, root |-> root_, writes |-> {}, ub |-> FALSE]
  ELSE
    LET r == RemoveLoop(h, root_, key, 1, {})
    IN [heap |-> r.heap, root |-> root_, writes |-> r.writes, ub |-> r.ub]

\* Remove without the GetTrieNode test of its guard.
RemoveNoPathCheck(h, root_, key) ==
  IF Len(key) = 0 \/ root_ = Null
  THEN [heap |-> h, root |-> root_, writes |-> {}, ub |-> FALSE]
  ELSE
    LET h0 == Append(h, Clone(h[root_]))
        root == Len(h0)
        r == RemoveLoop(h0, root, key, 1, {})
    IN [heap |-> r.heap, root |-> root, writes |-> r.writes, ub |-> r.ub]

Remove(h, root_, key) ==
  IF Len(key) = 0 \/ root_ = Null \/ GetTrieNode(h, root_, key) = Null
  THEN [heap |-> h, root |-> root_, writes |-> {}, ub |-> FALSE]
  ELSE
    LET h0 == Append(h, Clone(h[root_]))
        root == Len(h0)
        r == RemoveLoop(h0, root, key, 1, {})
    IN [heap |-> r.heap, root |-> root, writes |-> r.writes, ub |-> r.ub]

----------------------------------------------------------------------------
\* The program. One writer builds the chain of snapshots: each Put or Remove
\* is called on the newest Trie and its result is kept with the older ones.
\* Readers call Get on any Trie of the chain. A Get changes neither heap nor
\* tries, so a run ends with it.

\* No stepwise Get, no stepwise Put or Remove.
RdIdle == [pc |-> "idle", src |-> 0, key |-> <<>>, ty |-> "none", i |-> 0,
           cur |-> Null, res |-> Null, alone |-> [T \in Types |-> Null],
           mixed |-> FALSE]

WrIdle == [pc |-> "idle", op |-> "none", key |-> <<>>, ty |-> "none",
           val |-> Null, i |-> 0, cur |-> Null, root |-> Null, base |-> 0,
           writes |-> {}, ub |-> FALSE]

NoGet == [src |-> 0, key |-> <<>>, ty |-> "none", res |-> Null]

\* The newest Trie and the call that made it.
Last == tries[Len(tries)]

\* The Trie the newest one was made from.
Prev == tries[Len(tries) - 1]

Init ==
  /\ heap = <<>>
  /\ tries = <<[root |-> Null, op |-> "Trie", key |-> <<>>, ty |-> "none",
                val |-> Null, base |-> 0, writes |-> {}, ub |-> FALSE]>>
  /\ got = NoGet
  /\ nops = 0
  /\ rd = RdIdle
  /\ wr = WrIdle

DoPut(key, T, v) ==
  /\ nops < MaxOps
  /\ got = NoGet
  /\ nops' = nops + 1
  /\ LET r == Put(heap, Last.root, key, T, v)
     IN /\ heap' = r.heap
        /\ tries' = Append(tries,
                      [root |-> r.root, op |-> "Put", key |-> key, ty |-> T,
                       val |-> v, base |-> Len(heap), writes |-> r.writes,
                       ub |-> r.ub])
  /\ got' = NoGet
  /\ UNCHANGED <<rd, wr>>

DoRemove(key) ==
  /\ nops < MaxOps
  /\ got = NoGet
  /\ nops' = nops + 1
  /\ LET r == Remove(heap, Last.root, key)
     IN /\ heap' = r.heap
        /\ tries' = Append(tries,
                      [root |-> r.root, op |-> "Remove", key |-> key,
                       ty |-> "none", val |-> Null, base |-> Len(heap),
                       writes |-> r.writes, ub |-> r.ub])
  /\ got' = NoGet
  /\ UNCHANGED <<rd, wr>>

DoGet(s, key, T) ==
  /\ nops < MaxOps
  /\ got = NoGet
  /\ nops' = nops + 1
  /\ got' = [src |-> s, key |-> key, ty |-> T,
             res |-> Get(heap, tries[s].root, key, T)]
  /\ UNCHANGED <<heap, tries, rd, wr>>

Next ==
  \/ \E key \in Keys, T \in Types, v \in Values : DoPut(key, T, v)
  \/ \E key \in Keys : DoRemove(key)
  \/ \E s \in 1..Len(tries), key \in Keys, T \in Types : DoGet(s, key, T)

Spec == Init /\ [][Next]_vars

----------------------------------------------------------------------------
\* A reader and a writer without a lock. A first call builds a trie; then one
\* Get runs on any Trie of the chain, one node visit per step, and one Put or
\* Remove runs on the newest Trie, one loop iteration per step; their steps
\* interleave in any order.

\* Put up to the loop: the clone of the root, or a new root.
PutBeginInPlace(h, root_) ==
  IF root_ # Null THEN [heap |-> h, cur |-> root_]
  ELSE [heap |-> Append(h, TrieNode(NoChildren)), cur |-> Len(h) + 1]

PutBegin(h, root_) ==
  [heap |-> Append(h, IF root_ # Null THEN Clone(h[root_]) ELSE TrieNode(NoChildren)),
   cur |-> Len(h) + 1]

\* One iteration of Put's loop.
PutStep(h, cur, key, i, T, v) ==
  LET prev == cur
      it == h[prev].children[key[i]]
      node == IF i = Len(key) THEN TrieNodeWithValue(T, v)
              ELSE IF it # Null THEN Clone(h[it])
              ELSE TrieNode(NoChildren)
      h1 == Append(h, node)
      new == Len(h1)
  IN [heap |-> [h1 EXCEPT ![prev].children[key[i]] = new], cur |-> new,
      wrote |-> {prev}, ub |-> FALSE]

\* Remove up to the loop: the clone of the root.
RemoveBegin(h, root_) == [heap |-> Append(h, Clone(h[root_])), cur |-> Len(h) + 1]

\* One iteration of Remove's loop.
RemoveStep(h, cur, key, i) ==
  LET prev == cur
      it == h[prev].children[key[i]]
  IN IF it = Null THEN [heap |-> h, cur |-> cur, wrote |-> {}, ub |-> TRUE]
     ELSE IF i = Len(key) THEN
       LET h1 == Append(h, TrieNode(h[it].children))
           new == Len(h1)
       IN IF ~Empty(h1[new].children)
          THEN [heap |-> [h1 EXCEPT ![prev].children[key[i]] = new], cur |-> new,
                wrote |-> {prev}, ub |-> FALSE]
          ELSE [heap |-> h1, cur |-> new, wrote |-> {}, ub |-> FALSE]
     ELSE
       LET h1 == Append(h, Clone(h[it]))
           new == Len(h1)
       IN [heap |-> [h1 EXCEPT ![prev].children[key[i]] = new], cur |-> new,
           wrote |-> {prev}, ub |-> FALSE]

\* The first call, made before the reader and the writer start.
First == rd = RdIdle /\ wr = WrIdle /\ Len(tries) = 1

\* Get starts: cur = root_. What the call returns when run alone is kept, for
\* each T it can be instantiated with: the walk is the same for every T, and
\* the model fixes T where it is first used, at the cast.
RdStart(s, key) ==
  /\ rd.pc = "idle"
  /\ rd' = [RdIdle EXCEPT !.pc = "walk", !.src = s, !.key = key,
                          !.i = 1, !.cur = tries[s].root,
                          !.alone = [T \in Types |-> Get(heap, tries[s].root, key, T)]]
  /\ UNCHANGED <<heap, tries, got, nops, wr>>

\* One iteration of GetTrieNode's loop: one node visited.
RdStep ==
  /\ rd.pc = "walk" /\ rd.i <= Len(rd.key) /\ rd.cur # Null
  /\ LET it == heap[rd.cur].children[rd.key[rd.i]]
     IN rd' = IF it = Null THEN [rd EXCEPT !.cur = Null, !.i = Len(rd.key) + 1]
              ELSE [rd EXCEPT !.cur = it, !.i = rd.i + 1]
  /\ UNCHANGED <<heap, tries, got, nops, wr>>

\* The loop is left; the dynamic_cast and the return of Get.
RdFinish(T) ==
  /\ rd.pc = "walk" /\ (rd.i > Len(rd.key) \/ rd.cur = Null)
  /\ rd' = [rd EXCEPT !.pc = "done", !.ty = T,
                      !.res = IF rd.cur # Null /\ heap[rd.cur].ty = T
                              THEN heap[rd.cur].val ELSE Null]
  /\ UNCHANGED <<heap, tries, got, nops, wr>>

\* The reader was between two node visits while the writer took a step.
Mixed == [rd EXCEPT !.mixed = rd.mixed \/ rd.pc = "walk"]

\* return Trie(root): the Trie joins the chain.
Return(w, root) ==
  Append(tries, [root |-> root, op |-> w.op, key |-> w.key, ty |-> w.ty,
                 val |-> w.val, base |-> w.base, writes |-> w.writes,
                 ub |-> w.ub])

\* Put starts on the newest Trie: the early return, or the root's clone.
WrStartPut(key, T, v) ==
  /\ wr.pc = "idle"
  /\ nops' = nops + 1
  /\ LET w == [WrIdle EXCEPT !.op = "Put", !.key = key, !.ty = T, !.val = v,
                             !.base = Len(heap)]
         b == PutBegin(heap, Last.root)
     IN IF Len(key) = 0
        THEN /\ wr' = [w EXCEPT !.pc = "done", !.root = Last.root]
             /\ tries' = Return(w, Last.root)
             /\ heap' = heap
        ELSE /\ wr' = [w EXCEPT !.pc = "loop", !.i = 1, !.cur = b.cur, !.root = b.cur]
             /\ tries' = tries
             /\ heap' = b.heap
  /\ rd' = Mixed
  /\ UNCHANGED got

\* Remove starts on the newest Trie: the guard, then the root's clone.
WrStartRemove(key) ==
  /\ wr.pc = "idle"
  /\ nops' = nops + 1
  /\ LET w == [WrIdle EXCEPT !.op = "Remove", !.key = key, !.base = Len(heap)]
     IN IF Len(key) = 0 \/ Last.root = Null \/ GetTrieNode(heap, Last.root, key) = Null
        THEN /\ wr' = [w EXCEPT !.pc = "done", !.root = Last.root]
             /\ tries' = Return(w, Last.root)
             /\ heap' = heap
        ELSE LET b == RemoveBegin(heap, Last.root)
             IN /\ wr' = [w EXCEPT !.pc = "loop", !.i = 1, !.cur = b.cur, !.root = b.cur]
                /\ tries' = tries
                /\ heap' = b.heap
  /\ rd' = Mixed
  /\ UNCHANGED got

\* One iteration of the writer's loop; after the last one the Trie is returned.
WrStep ==
  /\ wr.pc = "loop"
  /\ LET r == IF wr.op = "Put"
              THEN PutStep(heap, wr.cur, wr.key, wr.i, wr.ty, wr.val)
              ELSE RemoveStep(heap, wr.cur, wr.key, wr.i)
         w == [wr EXCEPT !.i = wr.i + 1, !.cur = r.cur, !.ub = r.ub,
                         !.writes = wr.writes \cup r.wrote,
                         !.pc = IF wr.i = Len(wr.key) \/ r.ub THEN "done" ELSE "loop"]
     IN /\ heap' = r.heap
        /\ wr' = w
        /\ tries' = IF w.pc = "done" THEN Return(w, w.root) ELSE tries
  /\ rd' = Mixed
  /\ UNCHANGED <<got, nops>>

NextConc ==
  \/ \E key \in Keys, T \in Types, v \in Values : First /\ DoPut(key, T, v)
  \/ \E s \in 1..Len(tries), key \in Keys : RdStart(s, key)
  \/ RdStep
  \/ \E T \in Types : RdFinish(T)
  \/ \E key \in Keys, T \in Types, v \in Values : WrStartPut(key, T, v)
  \/ \E key \in Keys : WrStartRemove(key)
  \/ WrStep

SpecConc == Init /\ [][NextConc]_vars

----------------------------------------------------------------------------
\* What the claims speak of

\* p is a prefix of k (the empty sequence and k itself included).
IsPrefix(p, k) == Len(p) <= Len(k) /\ \A i \in 1..Len(p) : p[i] = k[i]

\* k without its last symbol.
ParentKey(k) == SubSeq(k, 1, Len(k) - 1)

\* The nodes of the trie under root_, enumerated from the root downwards, level
\* by level: pairs <<position, node>>.
RECURSIVE Level(_, _, _)
Level(h, root_, d) ==
  IF d = 0 THEN (IF root_ = Null THEN {} ELSE {<<<<>>, root_>>})
  ELSE UNION {{<<Append(e[1], c), h[e[2]].children[c]>> :
                 c \in {x \in Sym : h[e[2]].children[x] # Null}} :
              e \in Level(h, root_, d - 1)}

Nodes(h, root_) == UNION {Level(h, root_, d) : d \in 0..MaxKeyLen}

\* The same positions, and at each the same value and the same symbols mapped.
StructEq(h1, r1, h2, r2) ==
  /\ {e[1] : e \in Nodes(h1, r1)} = {e[1] : e \in Nodes(h2, r2)}
  /\ \A e1 \in Nodes(h1, r1), e2 \in Nodes(h2, r2) :
       e1[1] = e2[1] =>
         /\ h1[e1[2]].ty = h2[e2[2]].ty
         /\ h1[e1[2]].val = h2[e2[2]].val
         /\ \A c \in Sym : (h1[e1[2]].children[c] = Null) = (h2[e2[2]].children[c] = Null)

\* The step just taken was a call of op that returned a new Trie.
Called(op) == Len(tries) >= 2 /\ Last.op = op /\ got = NoGet

----------------------------------------------------------------------------
\* C1: for every reachable trie t, non-empty key k and value v,
\* t.Put(k, v).Remove(k).Get<T>(k) is absent.
C1_PutRemoveGetAbsent ==
  (/\ Len(tries) >= 3
   /\ Last.op = "Remove" /\ Prev.op = "Put"
   /\ Prev.key = Last.key /\ Len(Last.key) > 0)
  => \A T \in Types : Get(heap, Last.root, Last.key, T) = Null

\* C2: for every reachable trie t, non-empty key k and value v of type T,
\* t.Put(k, v).Get<T>(k) returns v.
C2_PutGet ==
  (Called("Put") /\ Len(Last.key) > 0)
  => Get(heap, Last.root, Last.key, Last.ty) = Last.val

\* A Put on a key whose path the receiver already had, read back.
C2_Witness ==
  /\ Called("Put") /\ Len(Last.key) = MaxKeyLen
  /\ GetTrieNode(heap, Prev.root, Last.key) # Null
  /\ Get(heap, Last.root, Last.key, Last.ty) = Last.val

\* C3: old snapshots never change: a call leaves every Trie produced before it
\* in place, and Get on it gives for every key and type what it gave before.
C3_OldSnapshotsFixed ==
  [][\A i \in 1..Len(tries) :
       /\ tries'[i] = tries[i]
       /\ \A k \in Keys, T \in Types :
            Get(heap', tries[i].root, k, T) = Get(heap, tries[i].root, k, T)]_vars

\* After t2 = t1.Put(k, v) on a trie that held another value under k, t1 still
\* gives the old value and t2 the new one.
C3_Witness ==
  /\ Called("Put") /\ Len(Last.key) > 0
  /\ Get(heap, Prev.root, Last.key, Last.ty) \notin {Null, Last.val}
  /\ Get(heap, Last.root, Last.key, Last.ty) = Last.val

\* C4: leaf pruning reaches the parent: when Remove(k) is called on a leaf key
\* whose parent node holds no value and has no other child, the parent node
\* is not reachable in the returned trie (t.Put("ab", 1).Remove("ab") has no
\* node for "a").
C4_LeafPruningReachesParent ==
  (/\ Called("Remove") /\ Len(Last.key) >= 2
   /\ LET n == GetTrieNode(heap, Prev.root, Last.key)
          p == GetTrieNode(heap, Prev.root, ParentKey(Last.key))
      IN /\ n # Null
         /\ heap[n].ty # "none" /\ Empty(heap[n].children)
         /\ heap[p].ty = "none"
         /\ \A c \in Sym \ {Last.key[Len(Last.key)]} : heap[p].children[c] = Null)
  => GetTrieNode(heap, Last.root, ParentKey(Last.key)) = Null

\* C5: for every reachable trie t, non-empty key k and values v1, v2 of type
\* T, t.Put(k, v1).Put(k, v2).Get<T>(k) returns v2.
C5_Overwrite ==
  (/\ Len(tries) >= 3
   /\ Called("Put") /\ Prev.op = "Put"
   /\ Prev.key = Last.key /\ Prev.ty = Last.ty /\ Len(Last.key) > 0)
  => Get(heap, Last.root, Last.key, Last.ty) = Last.val

\* Two Puts of different values under one key and type.
C5_Witness ==
  /\ Len(tries) >= 3
  /\ Called("Put") /\ Prev.op = "Put"
  /\ Prev.key = Last.key /\ Prev.ty = Last.ty /\ Len(Last.key) > 0
  /\ Prev.val # Last.val
  /\ Get(heap, Last.root, Last.key, Last.ty) = Last.val

\* C6: Remove is idempotent: t.Remove(k).Remove(k) is structurally equivalent
\* to t.Remove(k).
C6_RemoveIdempotent ==
  Called("Remove") =>
    LET r == Remove(heap, Last.root, Last.key)
    IN StructEq(heap, Last.root, r.heap, r.root)

\* A Remove that passed its guard and built a new path, removed again.
C6_Witness ==
  /\ Called("Remove") /\ Last.root # Prev.root
  /\ Remove(heap, Last.root, Last.key).root # Last.root

\* C7: Remove(k) is a no-op when k is empty, when the trie is empty, or when
\* the full path of k does not exist: the returned Trie has the receiver's
\* root, the same structure, and Get gives the same result for every key.
C7_RemoveNoOp ==
  [][(/\ Len(tries') = Len(tries) + 1
      /\ tries'[Len(tries')].op = "Remove"
      /\ \/ Len(tries'[Len(tries')].key) = 0
         \/ Last.root = Null
         \/ \A e \in Nodes(heap, Last.root) : e[1] # tries'[Len(tries')].key)
     => /\ tries'[Len(tries')].root = Last.root
        /\ StructEq(heap, Last.root, heap', tries'[Len(tries')].root)
        /\ \A k \in Keys, T \in Types :
             Get(heap', tries'[Len(tries')].root, k, T) = Get(heap, Last.root, k, T)]_vars

\* A Remove of a key that a non-empty trie has no path for.
C7_Witness ==
  /\ Called("Remove") /\ Len(Last.key) > 0
  /\ Prev.root # Null
  /\ \A e \in Nodes(heap, Prev.root) : e[1] # Last.key
  /\ Last.root = Prev.root

\* C8: Put with the empty key is a no-op: the returned Trie has the receiver's
\* root, Get gives the same result as before for every other key, and
\* Get<T>("") on the result is absent.
C8_PutEmptyKeyNoOp ==
  [][(/\ Len(tries') = Len(tries) + 1
      /\ tries'[Len(tries')].op = "Put"
      /\ Len(tries'[Len(tries')].key) = 0)
     => /\ tries'[Len(tries')].root = Last.root
        /\ \A k \in Keys, T \in Types :
             Get(heap', tries'[Len(tries')].root, k, T)
               = IF Len(k) = 0 THEN Null ELSE Get(heap, Last.root, k, T)]_vars

\* A Put with the empty key on a trie that holds keys.
C8_Witness ==
  /\ Called("Put") /\ Len(Last.key) = 0
  /\ Prev.root # Null
  /\ Last.root = Prev.root

\* C9: Get<T>(k) returns the stored value exactly when the walk from the root
\* along every symbol of k exists and ends on a node with a value of type T;
\* in every other case it returns absent.
C9_GetByWalk ==
  got.src # 0 =>
    LET ends == {e \in Nodes(heap, tries[got.src].root) :
                   e[1] = got.key /\ heap[e[2]].ty = got.ty}
    IN /\ ends = {} => got.res = Null
       /\ \A e \in ends : got.res = heap[e[2]].val /\ got.res # Null

\* A Get under another type than the one the value was stored under.
C9_Witness ==
  /\ got.src # 0 /\ got.res = Null
  /\ \E e \in Nodes(heap, tries[got.src].root) :
       e[1] = got.key /\ heap[e[2]].ty \notin {"none", got.ty}

\* C10: structural sharing in Put: every node of t.Put(k, v) off the path
\* spelled by k is the very node t has at that position; the root and the
\* nodes along k, and no others, are newly allocated.
C10_PutSharing ==
  [][(/\ Len(tries') = Len(tries) + 1
      /\ tries'[Len(tries')].op = "Put"
      /\ Len(tries'[Len(tries')].key) > 0)
     => /\ \A e \in Nodes(heap', tries'[Len(tries')].root) :
             IF IsPrefix(e[1], tries'[Len(tries')].key)
             THEN e[2] > Len(heap)
             ELSE e[2] = GetTrieNode(heap, Last.root, e[1])
        /\ Len(heap') = Len(heap) + Len(tries'[Len(tries')].key) + 1]_vars

\* A Put of a two-symbol key into a trie with a node off the key's path.
C10_Witness ==
  /\ Called("Put") /\ Len(Last.key) = MaxKeyLen
  /\ \E e \in Nodes(heap, Last.root) :
       ~IsPrefix(e[1], Last.key) /\ e[2] <= Last.base

\* C11: leaf removal drops the entry: when Remove(k) is called on a key whose
\* node has a value and no children, GetTrieNode(k) on the result is absent.
C11_LeafRemovalDropsEntry ==
  (/\ Called("Remove")
   /\ LET n == GetTrieNode(heap, Prev.root, Last.key)
      IN n # Null /\ heap[n].ty # "none" /\ Empty(heap[n].children))
  => GetTrieNode(heap, Last.root, Last.key) = Null

\* The nodes of the newest trie, off the root, with a value and a child.
InnerValueNodes ==
  {e \in Nodes(heap, Last.root) :
     Len(e[1]) > 0 /\ heap[e[2]].ty # "none" /\ ~Empty(heap[e[2]].children)}

\* k strictly extends p.
Extends(k, p) == IsPrefix(p, k) /\ Len(k) > Len(p)

\* C12: Remove on an inner value node keeps the structure: in the returned
\* trie Get<T>(k) is absent, the node at k is a plain node with the children
\* mapping it had, and every key that strictly extends k keeps its value.
C12_RemoveInnerKeepsStructure ==
  got = NoGet =>
    \A e \in InnerValueNodes :
      LET r == Remove(heap, Last.root, e[1])
          n == GetTrieNode(r.heap, r.root, e[1])
      IN /\ n # Null
         /\ r.heap[n].ty = "none"
         /\ r.heap[n].children = heap[e[2]].children
         /\ \A T \in Types : Get(r.heap, r.root, e[1], T) = Null
         /\ \A k \in Keys, T \in Types :
              Extends(k, e[1]) =>
                Get(r.heap, r.root, k, T) = Get(heap, Last.root, k, T)

\* A trie with a value at k and a value below k, and Remove(k) of it: the
\* value below is still read, the one at k is not.
C12_Witness ==
  /\ got = NoGet
  /\ \E e \in InnerValueNodes :
       LET r == Remove(heap, Last.root, e[1])
       IN /\ r.root # Last.root
          /\ Get(heap, Last.root, e[1], heap[e[2]].ty) # Null
          /\ Get(r.heap, r.root, e[1], heap[e[2]].ty) = Null
          /\ \E k \in Keys, T \in Types :
               Extends(k, e[1]) /\ Get(r.heap, r.root, k, T) # Null

\* C13: Put discards the subtree below its key: when the node at k has
\* children, the new node at k has none, so every key that strictly extends k
\* is absent in the returned trie and still present in the original one.
C13_PutDiscardsSubtree ==
  (/\ Called("Put") /\ Len(Last.key) > 0
   /\ LET n == GetTrieNode(heap, Prev.root, Last.key)
      IN n # Null /\ ~Empty(heap[n].children))
  => /\ Empty(heap[GetTrieNode(heap, Last.root, Last.key)].children)
     /\ \A k \in Keys :
          Extends(k, Last.key) =>
            /\ GetTrieNode(heap, Last.root, k) = Null
            /\ \A T \in Types : Get(heap, Last.root, k, T) = Null
     /\ \E k \in Keys :
          Extends(k, Last.key) /\ GetTrieNode(heap, Prev.root, k) # Null

\* Put("a") on a trie that holds a value under a key below "a".
C13_Witness ==
  /\ Called("Put") /\ Len(Last.key) > 0
  /\ \E k \in Keys, T \in Types :
       /\ Extends(k, Last.key)
       /\ Get(heap, Prev.root, k, T) # Null
       /\ Get(heap, Last.root, k, T) = Null

\* C14: published nodes are never written: every node a call writes was
\* allocated in that call, and no node that existed before the call has its
\* children mapping or value changed.
C14_PublishedNodesNeverWritten ==
  [][/\ \A n \in 1..Len(heap) : heap'[n] = heap[n]
     /\ Len(tries') > Len(tries) =>
          \A n \in tries'[Len(tries')].writes : n > Len(heap) /\ n <= Len(heap')]_vars

\* A Put that wrote the new nodes of a full-length path, then a Remove that
\* wrote its clone of the root.
C14_Witness ==
  /\ Called("Remove") /\ Last.writes # {}
  /\ \A n \in Last.writes : n > Last.base
  /\ Prev.op = "Put" /\ Cardinality(Prev.writes) = MaxKeyLen

\* The stepwise writer builds what the call builds at once: when it has
\* returned, heap and Trie are those of Put or Remove applied to the heap the
\* call started from.
WriterStepsAgree ==
  wr.pc = "done" =>
    LET h0 == SubSeq(heap, 1, wr.base)
        r == IF wr.op = "Put" THEN Put(h0, Prev.root, wr.key, wr.ty, wr.val)
             ELSE Remove(h0, Prev.root, wr.key)
    IN r.heap = heap /\ r.root = Last.root /\ r.writes = Last.writes

\* C15: readers need no lock against a writer: a Get that runs one node visit
\* per step, interleaved in any order with the steps of one Put or Remove on
\* the newest Trie, returns what it returns when run alone.
C15_ReaderUnaffected == rd.pc = "done" => rd.res = rd.alone[rd.ty]

\* A Get of a stored key that was between two node visits while a Put or
\* Remove of the same key, on the Trie it reads, went through its loop.
C15_Witness ==
  /\ rd.pc = "done" /\ rd.mixed /\ rd.res # Null
  /\ wr.pc = "done" /\ wr.key = rd.key /\ wr.writes # {}
  /\ rd.src = Len(tries) - 1

\* C16: dead-leaf invariant: in every reachable trie no node but the root is
\* without a value and without children.
C16_NoDeadLeaf ==
  \A e \in Nodes(heap, Last.root) :
    Len(e[1]) > 0 => ~(heap[e[2]].ty = "none" /\ Empty(heap[e[2]].children))

\* A Remove that passed its guard on a key whose node had no children.
C16_Witness ==
  /\ Called("Remove") /\ Last.root # Prev.root
  /\ Empty(heap[GetTrieNode(heap, Prev.root, Last.key)].children)

C18_NoMissingChild == \A i \in 1..Len(tries) : ~tries[i].ub

\* A Remove that went through its loop for a two-symbol key.
C18_Witness ==
  /\ Called("Remove") /\ Len(Last.key) = MaxKeyLen
  /\ Last.root # Prev.root /\ ~Last.ub

C20_PutFrame ==
  (Called("Put") /\ Len(Last.key) > 0) =>
    \A k \in Keys \ {Last.key}, T \in Types :
      ~Extends(k, Last.key) =>
        Get(heap, Last.root, k, T) = Get(heap, Prev.root, k, T)

\* A Put below a key that holds a value: the value is still read.
C20_Witness ==
  /\ Called("Put")
  /\ \E k \in Keys, T \in Types :
       Extends(Last.key, k) /\ Get(heap, Last.root, k, T) # Null

====
